---- MODULE Spec2Model ----
(***************************************************************************)
(* iocrypt: chunked AES/GCM encryption of I/O streams (src/iocrypt.go).    *)
(*                                                                         *)
(* A byte is a digit in 0 .. ByteBase-1 (256 in Go); every multi-byte      *)
(* integer keeps its number of bytes (8-byte length, 4-byte checksum,      *)
(* 12-byte nonce of which incNonce reads 8), so the counters wrap at       *)
(* ByteBase^8 as the Go ones wrap at 256^8.  The library primitives        *)
(* (crc32.ChecksumIEEE, gcm.Seal, gcm.Open, aes.NewCipher) are modelled by *)
(* what the code relies on: their lengths, their determinism and that      *)
(* they detect an altered byte.                                            *)
(*                                                                         *)
(* Specifications: Spec (Encrypt, then DecryptN on what the test makes of  *)
(* the container), SpecNonce (one long Encrypt), SpecStream (DecryptN on   *)
(* chunk streams, forged headers and other bytes), SpecPar (an Encrypt and *)
(* a DecryptN interleaved), SpecSplit (Encrypt on a reader that splits its *)
(* reads) and SpecLive (one call under weak fairness).                     *)
(***************************************************************************)
EXTENDS Integers, Sequences, FiniteSets, TLC

\* ---------------------------------------------------------------- bounds
\* Number of values of one byte.
ByteBase == 2
\* Plaintext bytes read per chunk (64 MiB in the source, scaled).
readChunkSize == 2
\* Longest plaintext handed to Encrypt.
MaxPlainLen == 5
\* Trailing bytes the test harness may append to a container.
MaxPad == 1

\* ------------------------------------------------------- program constants
sizeLen == 8
crc32Size == 4
NonceSize == 12
TagSize == 16

HeaderLen == NonceSize + sizeLen + crc32Size

Byte == 0 .. (ByteBase - 1)

RECURSIVE Pow(_, _)
Pow(b, e) == IF e = 0 THEN 1 ELSE b * Pow(b, e - 1)

\* Number of values of a uint64 at the model's byte width.
Uint64Mod == Pow(ByteBase, 8)

\* ------------------------------------------------------------ byte helpers
Slice(s, from, to) == IF to < from THEN <<>> ELSE SubSeq(s, from, to)

\* Sum of w(i) * s[i] over the first n bytes of s, with w(i) = w0 + i.
RECURSIVE WeightedSumTo(_, _, _)
WeightedSumTo(s, w0, n) ==
    IF n = 0 THEN 0 ELSE (w0 + n) * s[n] + WeightedSumTo(s, w0, n - 1)

RECURSIVE SumTo(_, _)
SumTo(s, n) == IF n = 0 THEN 0 ELSE s[n] + SumTo(s, n - 1)

SumSeq(s) == SumTo(s, Len(s))

WeightedSum(s, w) == WeightedSumTo(s, w - 1, Len(s))

\* binary.LittleEndian.PutUint64 / PutUint32: v as n little-endian bytes
\* (w is v, evaluated once).
PutUint(v, n) ==
    CHOOSE b \in {[i \in 1 .. n |-> (w \div Pow(ByteBase, i - 1)) % ByteBase] : w \in {v}} :
        TRUE

\* binary.LittleEndian.Uint64 / Uint32: the little-endian value of bytes b.
RECURSIVE UintFrom(_, _)
UintFrom(b, i) == IF i > Len(b) THEN 0 ELSE b[i] + ByteBase * UintFrom(b, i + 1)

Uint(b) == CHOOSE u \in {UintFrom(s, 1) : s \in {b}} : TRUE

\* Go's conversion int(uint64): values with the top bit set become negative.
ToInt(u) == IF 2 * u >= Uint64Mod THEN u - Uint64Mod ELSE u

\* Go's conversion uint64(int) of a non-negative int.
ToUint64(n) == n % Uint64Mod

\* Go's a + b on int: the sum wraps around at the width of an int.
IntAdd(a, b) == ToInt((a + b) % Uint64Mod)

\* The largest length make([]byte, n) takes before it panics with "len out
\* of range": 2^48 bytes, 6 of the 8 bytes of an int.
MaxAlloc == Pow(ByteBase, 6)

\* crc32.ChecksumIEEE over the bytes b: a 4-byte value, a function of every
\* byte of b that changes whenever a single byte changes (s is b, evaluated
\* once).
ChecksumIEEE(b) ==
    CHOOSE c \in {Uint(<< (1 + SumSeq(s)) % ByteBase,
                          (WeightedSum(s, 1)) % ByteBase,
                          (WeightedSum(s, 2)) % ByteBase,
                          (Len(s) + SumSeq(s)) % ByteBase >>) : s \in {b}} : TRUE

\* ------------------------------------------------------------ header codec
\* packNonceAndSize with a fault: the header records the plaintext length,
\* not the length of the sealed payload.
packPlainSize(nonce, size) ==
    LET body == nonce \o PutUint(ToUint64(size - TagSize), sizeLen)
    IN  body \o PutUint(ChecksumIEEE(body), crc32Size)

\* packNonceAndSize: nonce, 8-byte little-endian size, 4-byte CRC32 of both.
packNonceAndSize(nonce, size) ==
    LET body == nonce \o PutUint(ToUint64(size), sizeLen)
    IN  body \o PutUint(ChecksumIEEE(body), crc32Size)

\* unpackNonceAndSize with a fault: the stored checksum is not compared.
unpackUnchecked(b, nonceSize) ==
    LET crcoffset == nonceSize + sizeLen
        size == Uint(Slice(b, nonceSize + 1, crcoffset))
    IN  [nonce |-> Slice(b, 1, nonceSize), size |-> ToInt(size), err |-> "nil"]

\* unpackNonceAndSize: the nonce and size of header b, or an error when the
\* checksum stored in b is not the checksum of its nonce and size bytes.
unpackNonceAndSize(b, nonceSize) ==
    LET crcoffset == nonceSize + sizeLen
        size == Uint(Slice(b, nonceSize + 1, crcoffset))
        crc  == ChecksumIEEE(Slice(b, 1, crcoffset))
        hcrc == Uint(Slice(b, crcoffset + 1, Len(b)))
    IN  IF crc # hcrc
        THEN [nonce |-> <<>>, size |-> 0, err |-> "crc"]
        ELSE [nonce |-> Slice(b, 1, nonceSize), size |-> ToInt(size), err |-> "nil"]

\* --------------------------------------------------------- nonce sequencer
\* incNonce: n := Uint64(nonce) + 1; PutUint64(nonce, n).  Both calls touch
\* the first 8 bytes of the slice only.
incNonce(nonce) ==
    LET n == (Uint(Slice(nonce, 1, 8)) + 1) % Uint64Mod
    IN  PutUint(n, 8) \o Slice(nonce, 9, Len(nonce))

\* ------------------------------------------------------------ AEAD adapter
\* NewCipherOK with a fault: only a lower bound on the key length.
NewCipherAtLeast16(k) == Len(k) >= 16

\* aes.NewCipher: the key sizes of AES-128, AES-192 and AES-256.
NewCipherOK(k) == Len(k) \in {16, 24, 32}

KeyByte(k, i) == k[((i - 1) % Len(k)) + 1]
NonceByte(n, i) == n[((i - 1) % Len(n)) + 1]

\* The key as it enters the tag: its bytes and its length.
KeyMix(k, j) == KeyByte(k, j) + (IF 8 * j <= Len(k) THEN 1 ELSE 0)

KeyStream(k, n, i) == (KeyByte(k, i) + NonceByte(n, i) + i) % ByteBase

\* The authentication tag of ciphertext ct under key k and nonce n.
Tag(k, n, ct) ==
    [j \in 1 .. TagSize |->
        (KeyMix(k, j) + NonceByte(n, j) + SumSeq(ct) + Len(ct)) % ByteBase]

\* gcm.Seal(dst[:0], nonce, plaintext, nil): ciphertext followed by the tag.
Seal(k, n, plaintext) ==
    LET ct == [i \in 1 .. Len(plaintext) |->
                  (plaintext[i] + KeyStream(k, n, i)) % ByteBase]
    IN  ct \o Tag(k, n, ct)

\* Open with a fault: the tag is checked but the ciphertext is returned as
\* it is.
OpenKeepsCiphertext(k, n, sealed) ==
    LET clen == Len(sealed) - TagSize
        ct   == Slice(sealed, 1, clen)
        tag  == Slice(sealed, clen + 1, Len(sealed))
    IN  IF clen < 0 \/ tag # Tag(k, n, ct)
        THEN [plaintext |-> <<>>, err |-> "auth"]
        ELSE [plaintext |-> ct, err |-> "nil"]

\* gcm.Open(dst[:0], nonce, ciphertext, nil): the plaintext, or an error when
\* the input is shorter than a tag or its tag is not the tag of its bytes.
Open(k, n, sealed) ==
    LET clen == Len(sealed) - TagSize
        ct   == Slice(sealed, 1, clen)
        tag  == Slice(sealed, clen + 1, Len(sealed))
    IN  IF clen < 0 \/ tag # Tag(k, n, ct)
        THEN [plaintext |-> <<>>, err |-> "auth"]
        ELSE [plaintext |-> [i \in 1 .. clen |->
                               (ct[i] - KeyStream(k, n, i) + 2 * ByteBase) % ByteBase],
              err |-> "nil"]

\* ------------------------------------------------------------------ inputs
MakeKey(len, fill) == [i \in 1 .. len |-> fill]

\* Keys handed to Encrypt: AES-128, AES-192, AES-256 and two unsupported sizes.
EncKeys == {MakeKey(len, 0) : len \in {15, 16, 17, 24, 32}}
\* Keys handed to DecryptN: the same, and a second AES-128 key.
DecKeys == EncKeys \cup {MakeKey(16, 1)}

\* Plaintexts as the test generates them: byte i is (offset + i) mod the
\* number of byte values, for every length up to MaxPlainLen.
Plaintexts ==
    {[i \in 1 .. len |-> (off + i) % ByteBase] : len \in 0 .. MaxPlainLen, off \in {0, 1}}

\* Values randomBytes may return for the first nonce: all bytes zero, and
\* the low 8 bytes at their maximum (the next increment carries out of them).
InitNonces ==
    {[i \in 1 .. NonceSize |-> 0],
     [i \in 1 .. NonceSize |-> IF i <= 8 THEN ByteBase - 1 ELSE 0]}

Min(a, b) == IF a < b THEN a ELSE b

\* Bytes a failed Write reports as written before its error: none, or all
\* but the last.
ShortCounts(len) == {0} \cup (IF len > 1 THEN {len - 1} ELSE {})

\* ------------------------------------------------------------------- state
VARIABLES
    pc,          \* position: Encrypt, EncLoop, EncDone, DecryptN, DecLoop, ...
    key,         \* Encrypt's key argument
    plain,       \* the bytes behind Encrypt's reader
    epos,        \* bytes Encrypt's reader has handed out
    nonce,       \* Encrypt's nonce slice
    tbytes,      \* Encrypt's tbytes
    cryptbuf,    \* the bytes in Encrypt's writer
    sealed,      \* history: the nonce each gcm.Seal call was given
    encRet,      \* Encrypt's result (n, err)
    mode,        \* how the harness built DecryptN's input
    alt,         \* index of the input byte the harness altered, or 0
    input,       \* the bytes behind DecryptN's reader
    dkey,        \* DecryptN's key argument
    maxlen,      \* DecryptN's maxlen argument
    opc,         \* position of the call that is not running, when two calls interleave
    nread,       \* bytes io.ReadFull has so far put into Encrypt's payload buffer
    rpos,        \* bytes DecryptN's reader has handed out
    rbytes,      \* DecryptN's rbytes
    wbytes,      \* DecryptN's wbytes
    header,      \* DecryptN's header buffer
    dnonce,      \* nonce of the current header
    payloadLen,  \* payloadLen of the current header
    payload,     \* DecryptN's payload slice
    decryptbuf,  \* the bytes in DecryptN's writer
    decRet       \* DecryptN's result (n, err)

encVars == <<key, plain, epos, nonce, tbytes, cryptbuf, sealed, encRet>>
argVars == <<mode, alt, input, dkey, maxlen, opc, nread>>
decVars == <<rpos, rbytes, wbytes, header, dnonce, payloadLen, payload, decryptbuf, decRet>>
vars == <<pc, encVars, argVars, decVars>>

NoRet == [n |-> 0, err |-> "none"]

\* `return tbytes, nil` / `return wbytes, nil`.
OkReturn(count) == [n |-> count, err |-> "nil"]

\* `return 0, err`: every error return of Encrypt and DecryptN.
ErrReturn(err) == [n |-> 0, err |-> err]

InitCommon ==
    /\ pc = "Encrypt"
    /\ key \in EncKeys
    /\ epos = 0
    /\ nonce = <<>>
    /\ tbytes = 0
    /\ cryptbuf = <<>>
    /\ sealed = <<>>
    /\ encRet = NoRet
    /\ mode = "none"
    /\ alt = 0
    /\ input = <<>>
    /\ dkey = <<>>
    /\ maxlen = 0
    /\ opc = "none"
    /\ nread = 0
    /\ rpos = 0
    /\ rbytes = 0
    /\ wbytes = 0
    /\ header = <<>>
    /\ dnonce = <<>>
    /\ payloadLen = 0
    /\ payload = <<>>
    /\ decryptbuf = <<>>
    /\ decRet = NoRet

Init == InitCommon /\ plain \in Plaintexts

\* ----------------------------------------------------------------- Encrypt
\* Lines 39-52: cipher construction and the random first nonce.
EncryptStart ==
    /\ pc = "Encrypt"
    /\ \/ /\ ~NewCipherOK(key)
          /\ encRet' = ErrReturn("KeySizeError")
          /\ pc' = "EncDone"
          /\ UNCHANGED nonce
       \/ /\ NewCipherOK(key)
          /\ encRet' = ErrReturn("rand")
          /\ pc' = "EncDone"
          /\ UNCHANGED nonce
       \/ /\ NewCipherOK(key)
          /\ nonce' \in InitNonces
          /\ pc' = "EncLoop"
          /\ UNCHANGED encRet
    /\ UNCHANGED <<key, plain, epos, tbytes, cryptbuf, sealed, argVars, decVars>>

\* Bytes io.ReadFull(r, payload[:readChunkSize]) gets from the reader.
EncAvail == Min(readChunkSize, Len(plain) - epos)

\* Lines 60-88, one iteration without failure: read a chunk, seal it, write
\* header and payload, advance the nonce.
EncryptChunk ==
    /\ pc = "EncLoop"
    /\ EncAvail > 0
    /\ LET nbytes == EncAvail
           sealedPayload == Seal(key, nonce, Slice(plain, epos + 1, epos + nbytes))
           hdr == packNonceAndSize(nonce, Len(sealedPayload))
       IN  /\ epos' = epos + nbytes
           /\ sealed' = Append(sealed, nonce)
           /\ cryptbuf' = cryptbuf \o hdr \o sealedPayload
           /\ tbytes' = tbytes + Len(hdr) + Len(sealedPayload)
           /\ nonce' = incNonce(nonce)
    /\ UNCHANGED <<pc, key, plain, encRet, argVars, decVars>>

\* Lines 62-65 and 91: io.EOF with no byte read ends the loop.
EncryptEOF ==
    /\ pc = "EncLoop"
    /\ EncAvail = 0
    /\ encRet' = OkReturn(tbytes)
    /\ pc' = "EncDone"
    /\ UNCHANGED <<key, plain, epos, nonce, tbytes, cryptbuf, sealed, argVars, decVars>>

\* Lines 62-68: the reader fails (neither EOF nor a short read), having
\* handed out a byte if it had one.
EncryptReadError ==
    /\ pc = "EncLoop"
    /\ epos' = epos + Min(EncAvail, 1)
    /\ encRet' = ErrReturn("read")
    /\ pc' = "EncDone"
    /\ UNCHANGED <<key, plain, nonce, tbytes, cryptbuf, sealed, argVars, decVars>>

\* Lines 70-84: the writer fails on the header or on the payload, having
\* taken k bytes of it.
EncryptWriteError ==
    /\ pc = "EncLoop"
    /\ EncAvail > 0
    /\ LET nbytes == EncAvail
           sealedPayload == Seal(key, nonce, Slice(plain, epos + 1, epos + nbytes))
           hdr == packNonceAndSize(nonce, Len(sealedPayload))
       IN  /\ epos' = epos + nbytes
           /\ sealed' = Append(sealed, nonce)
           /\ \/ \E k \in ShortCounts(Len(hdr)) :
                    /\ cryptbuf' = cryptbuf \o Slice(hdr, 1, k)
                    /\ tbytes' = tbytes
                    /\ encRet' = ErrReturn("write")
              \/ \E k \in ShortCounts(Len(sealedPayload)) :
                    /\ cryptbuf' = cryptbuf \o hdr \o Slice(sealedPayload, 1, k)
                    /\ tbytes' = tbytes + Len(hdr)
                    /\ encRet' = ErrReturn("write")
    /\ pc' = "EncDone"
    /\ UNCHANGED <<key, plain, nonce, argVars, decVars>>

EncNext ==
    \/ EncryptStart
    \/ EncryptChunk
    \/ EncryptEOF
    \/ EncryptReadError
    \/ EncryptWriteError

\* ------------------------------------------------------------ test harness
\* iocrypt_test.go lines 93-123: the container Encrypt wrote becomes
\* DecryptN's input, as it is, with one byte altered, with trailing bytes
\* appended, or cut short; maxlen is 0, the size Encrypt returned, or forced.
Alter(buf, i, v) == [buf EXCEPT ![i] = v]

Harness ==
    /\ pc = "EncDone"
    /\ encRet.err = "nil"
    /\ \/ /\ mode' = "whole"
          /\ alt' = 0
          /\ input' = cryptbuf
          /\ dkey' = key
          /\ maxlen' \in 0 .. (Len(cryptbuf) + 1)
       \/ /\ mode' = "key"
          /\ alt' = 0
          /\ input' = cryptbuf
          /\ dkey' \in DecKeys \ {key}
          /\ maxlen' \in {0, encRet.n}
       \/ /\ mode' = "alter"
          /\ \E i \in 1 .. Len(cryptbuf) : \E v \in Byte \ {cryptbuf[i]} :
                /\ alt' = i
                /\ input' = Alter(cryptbuf, i, v)
          /\ dkey' = key
          /\ maxlen' = 0
       \/ /\ mode' = "pad"
          /\ alt' = 0
          /\ \E n \in 1 .. MaxPad : input' = cryptbuf \o [i \in 1 .. n |-> 0]
          /\ dkey' = key
          /\ maxlen' \in {0, encRet.n}
       \/ /\ mode' = "cut"
          /\ alt' = 0
          /\ \E n \in 0 .. (Len(cryptbuf) - 1) : input' = Slice(cryptbuf, 1, n)
          /\ dkey' = key
          /\ maxlen' = 0
    /\ pc' = "DecryptN"
    /\ UNCHANGED <<encVars, decVars, opc, nread>>

\* ---------------------------------------------------------------- DecryptN
\* Lines 108-120: cipher construction, header buffer, counters.
DecryptStart ==
    /\ pc = "DecryptN"
    /\ IF NewCipherOK(dkey)
       THEN /\ header' = [i \in 1 .. HeaderLen |-> 0]
            /\ pc' = "DecLoop"
            /\ UNCHANGED decRet
       ELSE /\ decRet' = ErrReturn("KeySizeError")
            /\ pc' = "DecDone"
            /\ UNCHANGED header
    /\ UNCHANGED <<encVars, argVars, rpos, rbytes, wbytes, dnonce, payloadLen,
                   payload, decryptbuf>>

\* HeaderOverBudget with a fault: the test before the header read is missing.
HeaderOverBudgetOff == FALSE

\* Line 124: not enough budget left for the next header.
HeaderOverBudget == maxlen > 0 /\ rbytes + Len(header) > maxlen

\* Line 147: not enough budget left for the payload the header declares.
\* payloadLen is whatever the header says, so this sum can wrap; the sum of
\* line 124 adds 24 to a count of bytes actually read.
PayloadOverBudget(len) == maxlen > 0 /\ IntAdd(rbytes, len) > maxlen

\* BudgetMismatch with a fault: the test after the loop is missing.
BudgetMismatchOff == FALSE

\* BudgetMismatch with a fault: maxlen = 0 is taken as a budget too.
BudgetMismatchAlways == rbytes # maxlen

\* Line 171: with a budget, the bytes read must match it exactly.
BudgetMismatch == maxlen > 0 /\ rbytes # maxlen

\* DecryptReadHeader with a fault: a header cut short by the end of input
\* ends the loop as a clean end of input does.
DecryptReadHeaderLenient ==
    /\ pc = "DecLoop"
    /\ IF HeaderOverBudget
       THEN /\ pc' = "DecCheck"
            /\ UNCHANGED <<rpos, rbytes, header>>
       ELSE LET nbytes == Min(Len(header), Len(input) - rpos)
            IN  /\ rpos' = rpos + nbytes
                /\ IF nbytes < Len(header)
                   THEN /\ pc' = "DecCheck"
                        /\ UNCHANGED <<rbytes, header>>
                   ELSE /\ header' = Slice(input, rpos + 1, rpos + nbytes)
                        /\ rbytes' = rbytes + nbytes
                        /\ pc' = "DecUnpack"
    /\ UNCHANGED <<encVars, argVars, wbytes, dnonce, payloadLen, payload, decryptbuf,
                   decRet>>

\* DecryptReadHeader with a fault: io.EOF from the header read is returned
\* like any other error.
DecryptReadHeaderStrict ==
    /\ pc = "DecLoop"
    /\ IF HeaderOverBudget
       THEN /\ pc' = "DecCheck"
            /\ UNCHANGED <<rpos, rbytes, header, decRet>>
       ELSE LET nbytes == Min(Len(header), Len(input) - rpos)
            IN  /\ rpos' = rpos + nbytes
                /\ IF nbytes < Len(header)
                   THEN /\ decRet' = ErrReturn(IF nbytes = 0 THEN "EOF"
                                                ELSE "ErrUnexpectedEOF")
                        /\ pc' = "DecDone"
                        /\ UNCHANGED <<rbytes, header>>
                   ELSE /\ header' = Slice(input, rpos + 1, rpos + nbytes)
                        /\ rbytes' = rbytes + nbytes
                        /\ pc' = "DecUnpack"
                        /\ UNCHANGED decRet
    /\ UNCHANGED <<encVars, argVars, wbytes, dnonce, payloadLen, payload, decryptbuf>>

\* Lines 124-139: budget test, then io.ReadFull(r, header).
DecryptReadHeader ==
    /\ pc = "DecLoop"
    /\ IF HeaderOverBudget
       THEN /\ pc' = "DecCheck"
            /\ UNCHANGED <<rpos, rbytes, header, decRet>>
       ELSE LET nbytes == Min(Len(header), Len(input) - rpos)
            IN  /\ rpos' = rpos + nbytes
                /\ IF nbytes = 0
                   THEN /\ pc' = "DecCheck"
                        /\ UNCHANGED <<rbytes, header, decRet>>
                   ELSE IF nbytes < Len(header)
                   THEN /\ decRet' = ErrReturn("ErrUnexpectedEOF")
                        /\ header' = Slice(input, rpos + 1, rpos + nbytes)
                                        \o Slice(header, nbytes + 1, Len(header))
                        /\ pc' = "DecDone"
                        /\ UNCHANGED rbytes
                   ELSE /\ header' = Slice(input, rpos + 1, rpos + nbytes)
                        /\ rbytes' = rbytes + nbytes
                        /\ pc' = "DecUnpack"
                        /\ UNCHANGED decRet
    /\ UNCHANGED <<encVars, argVars, wbytes, dnonce, payloadLen, payload, decryptbuf>>

\* DecryptUnpack with a fault: after the first chunk a header is accepted
\* only when its nonce is the successor of the previous header's nonce.
DecryptUnpackSequenced ==
    /\ pc = "DecUnpack"
    /\ LET u == unpackNonceAndSize(header, NonceSize)
       IN  IF u.err # "nil"
           THEN /\ decRet' = ErrReturn(u.err)
                /\ pc' = "DecDone"
                /\ UNCHANGED <<dnonce, payloadLen>>
           ELSE IF dnonce # <<>> /\ u.nonce # incNonce(dnonce)
           THEN /\ decRet' = ErrReturn("nonce")
                /\ pc' = "DecDone"
                /\ UNCHANGED <<dnonce, payloadLen>>
           ELSE /\ dnonce' = u.nonce
                /\ payloadLen' = u.size
                /\ pc' = IF PayloadOverBudget(u.size) THEN "DecCheck" ELSE "DecPayload"
                /\ UNCHANGED decRet
    /\ UNCHANGED <<encVars, argVars, rpos, rbytes, wbytes, header, payload, decryptbuf>>

\* Lines 141-149: unpack the header, then the budget test for its payload.
DecryptUnpack ==
    /\ pc = "DecUnpack"
    /\ LET u == unpackNonceAndSize(header, NonceSize)
       IN  IF u.err # "nil"
           THEN /\ decRet' = ErrReturn(u.err)
                /\ pc' = "DecDone"
                /\ UNCHANGED <<dnonce, payloadLen>>
           ELSE /\ dnonce' = u.nonce
                /\ payloadLen' = u.size
                /\ pc' = IF PayloadOverBudget(u.size) THEN "DecCheck" ELSE "DecPayload"
                /\ UNCHANGED decRet
    /\ UNCHANGED <<encVars, argVars, rpos, rbytes, wbytes, header, payload, decryptbuf>>

\* Lines 152-156: make([]byte, payloadLen), which panics on a negative
\* length and on one beyond MaxAlloc, then io.ReadFull(r, payload).
DecryptReadPayload ==
    /\ pc = "DecPayload"
    /\ IF payloadLen < 0 \/ payloadLen > MaxAlloc
       THEN /\ decRet' = [n |-> 0, err |-> "panic"]
            /\ pc' = "DecDone"
            /\ UNCHANGED <<rpos, payload>>
       ELSE LET nbytes == Min(payloadLen, Len(input) - rpos)
            IN  /\ rpos' = rpos + nbytes
                /\ payload' = Slice(input, rpos + 1, rpos + nbytes)
                /\ IF nbytes < payloadLen
                   THEN /\ decRet' = ErrReturn(IF nbytes = 0 THEN "EOF"
                                                ELSE "ErrUnexpectedEOF")
                        /\ pc' = "DecDone"
                   ELSE /\ pc' = "DecOpen"
                        /\ UNCHANGED decRet
    /\ UNCHANGED <<encVars, argVars, rbytes, wbytes, header, dnonce, payloadLen, decryptbuf>>

\* DecryptOpen with a fault: the error of gcm.Open is not looked at.
DecryptOpenUnchecked ==
    /\ pc = "DecOpen"
    /\ LET o == Open(dkey, dnonce, payload)
       IN  /\ rbytes' = rbytes + Len(payload)
           /\ payload' = IF o.err = "nil" THEN o.plaintext
                          ELSE Slice(payload, 1, Len(payload) - TagSize)
           /\ pc' = "DecWrite"
           /\ UNCHANGED decRet
    /\ UNCHANGED <<encVars, argVars, rpos, wbytes, header, dnonce, payloadLen, decryptbuf>>

\* DecryptOpen with a fault: after a payload that fails gcm.Open the error is
\* kept and the loop goes on with the next header.
DecryptOpenSkipsBad ==
    /\ pc = "DecOpen"
    /\ LET o == Open(dkey, dnonce, payload)
       IN  IF o.err # "nil"
           THEN /\ decRet' = ErrReturn(o.err)
                /\ rbytes' = rbytes + Len(payload)
                /\ pc' = "DecLoop"
                /\ UNCHANGED payload
           ELSE /\ rbytes' = rbytes + Len(payload)
                /\ payload' = o.plaintext
                /\ pc' = "DecWrite"
                /\ UNCHANGED decRet
    /\ UNCHANGED <<encVars, argVars, rpos, wbytes, header, dnonce, payloadLen, decryptbuf>>

\* Lines 157-161: gcm.Open under the header's nonce.
DecryptOpen ==
    /\ pc = "DecOpen"
    /\ LET o == Open(dkey, dnonce, payload)
       IN  IF o.err # "nil"
           THEN /\ decRet' = ErrReturn(o.err)
                /\ pc' = "DecDone"
                /\ UNCHANGED <<payload, rbytes>>
           ELSE /\ rbytes' = rbytes + Len(payload)
                /\ payload' = o.plaintext
                /\ pc' = "DecWrite"
                /\ UNCHANGED decRet
    /\ UNCHANGED <<encVars, argVars, rpos, wbytes, header, dnonce, payloadLen, decryptbuf>>

\* DecryptWrite with a fault: the byte counter is one that Encrypt counts
\* in too.
DecryptWriteSharedCount ==
    /\ pc = "DecWrite"
    /\ decryptbuf' = decryptbuf \o payload
    /\ wbytes' = wbytes + tbytes + Len(payload)
    /\ pc' = "DecLoop"
    /\ UNCHANGED <<encVars, argVars, rpos, rbytes, header, dnonce, payloadLen,
                   payload, decRet>>

\* Lines 164-168: w.Write(payload).
DecryptWrite ==
    /\ pc = "DecWrite"
    /\ decryptbuf' = decryptbuf \o payload
    /\ wbytes' = wbytes + Len(payload)
    /\ pc' = "DecLoop"
    /\ UNCHANGED <<encVars, argVars, rpos, rbytes, header, dnonce, payloadLen,
                   payload, decRet>>

\* DecryptFinish with a fault: the end of the input continues the loop in
\* place of leaving it.
DecryptFinishRetry ==
    /\ pc = "DecCheck"
    /\ pc' = "DecLoop"
    /\ UNCHANGED <<encVars, argVars, decVars>>

\* Lines 171-175: the exact-budget test after the loop.
DecryptFinish ==
    /\ pc = "DecCheck"
    /\ decRet' = IF BudgetMismatch
                 THEN ErrReturn("budget")
                 ELSE OkReturn(wbytes)
    /\ pc' = "DecDone"
    /\ UNCHANGED <<encVars, argVars, rpos, rbytes, wbytes, header, dnonce,
                   payloadLen, payload, decryptbuf>>

\* Lines 132-138 and 153-156: the reader fails with an error of its own
\* while a header or a payload is being read, having handed out a byte if
\* it had one.
DecryptReadError ==
    /\ \/ pc = "DecLoop" /\ ~HeaderOverBudget
       \/ pc = "DecPayload" /\ payloadLen > 0
    /\ rpos' = rpos + Min(1, Len(input) - rpos)
    /\ decRet' = ErrReturn("read")
    /\ pc' = "DecDone"
    /\ UNCHANGED <<encVars, argVars, rbytes, wbytes, header, dnonce, payloadLen,
                   payload, decryptbuf>>

\* Lines 164-167: the writer fails, having taken k bytes of the plaintext.
DecryptWriteError ==
    /\ pc = "DecWrite"
    /\ \E k \in ShortCounts(Len(payload)) :
          decryptbuf' = decryptbuf \o Slice(payload, 1, k)
    /\ decRet' = ErrReturn("write")
    /\ pc' = "DecDone"
    /\ UNCHANGED <<encVars, argVars, rpos, rbytes, wbytes, header, dnonce,
                   payloadLen, payload>>

DecNext ==
    \/ DecryptStart
    \/ DecryptReadHeader
    \/ DecryptUnpack
    \/ DecryptReadPayload
    \/ DecryptOpen
    \/ DecryptWrite
    \/ DecryptFinish
    \/ DecryptReadError
    \/ DecryptWriteError

Next == EncNext \/ Harness \/ DecNext

Spec == Init /\ [][Next]_vars

\* ============================================================== properties
\* ----------------------------------------------------------------- helpers
IsPrefix(a, b) == Len(a) <= Len(b) /\ a = Slice(b, 1, Len(a))

CeilDiv(a, b) == (a + b - 1) \div b

\* The (header, payload) pairs at the front of buf, as far as headers pass
\* their checksum and declare a payload that buf holds in full.
RECURSIVE Pairs(_, _)
Pairs(buf, pos) ==
    IF Len(buf) - pos < HeaderLen THEN <<>>
    ELSE LET u == unpackNonceAndSize(Slice(buf, pos + 1, pos + HeaderLen), NonceSize)
             end == pos + HeaderLen + u.size
         IN  IF u.err # "nil" \/ u.size < 0 \/ end > Len(buf) THEN <<>>
             ELSE <<[nonce |-> u.nonce, size |-> u.size, end |-> end,
                     payload |-> Slice(buf, pos + HeaderLen + 1, end)]>>
                  \o Pairs(buf, end)

\* A pair's payload carries the tag of its ciphertext under key k and the
\* header's nonce.
Authentic(k, p) ==
    /\ p.size >= TagSize
    /\ Slice(p.payload, p.size - TagSize + 1, p.size)
          = Tag(k, p.nonce, Slice(p.payload, 1, p.size - TagSize))

RECURSIVE PlainOf(_, _, _)
PlainOf(k, ps, n) ==
    IF n = 0 THEN <<>>
    ELSE PlainOf(k, ps, n - 1) \o Open(k, ps[n].nonce, ps[n].payload).plaintext

\* Length of a full pair of the container, and the pair (1, 2, ...) that
\* byte i of a container belongs to; InPayload: i is no header byte.
FullPairLen == HeaderLen + readChunkSize + TagSize
PairOf(i) == ((i - 1) \div FullPairLen) + 1
InPayload(i) == ((i - 1) % FullPairLen) >= HeaderLen

\* The header of pair i of a container all of whose earlier pairs are full.
HeaderOfPair(buf, i) ==
    Slice(buf, (i - 1) * FullPairLen + 1, (i - 1) * FullPairLen + HeaderLen)

IOFailed(ret) == ret.err \in {"read", "write"}

DecRunning == pc \in {"DecLoop", "DecUnpack", "DecPayload", "DecOpen", "DecWrite",
                      "DecCheck", "DecDone"}

\* C1: Decrypt, and DecryptN with the size Encrypt returned, on the bytes
\* Encrypt wrote and with Encrypt's key, return no error and write exactly
\* the plaintext (unless the reader or writer itself fails).
C1_RoundTrip ==
    (pc = "DecDone" /\ mode = "whole" /\ maxlen \in {0, encRet.n} /\ ~IOFailed(decRet))
        => /\ decRet.err = "nil"
           /\ decryptbuf = plain
           /\ decRet.n = Len(plain)

\* Several chunks plus a remainder came back through DecryptN.
C1_Witness ==
    /\ pc = "DecDone" /\ mode = "whole" /\ maxlen = encRet.n /\ maxlen > 0
    /\ Len(plain) > readChunkSize /\ Len(plain) % readChunkSize # 0
    /\ decRet.err = "nil" /\ decryptbuf = plain

\* C2: every byte in DecryptN's writer is plaintext of a pair that was read
\* in full, whose header passed the checksum and whose payload is authentic
\* under the header's nonce and the key; and when a payload byte of pair c
\* was altered, DecryptN returns an error having written only the plaintext
\* of the pairs before c.
C2_TamperDetection ==
    /\ DecRunning =>
          \E n \in 0 .. Len(Pairs(input, 0)) :
             LET ps == Pairs(input, 0)
             IN  /\ \A i \in 1 .. n : ps[i].end <= rpos /\ Authentic(dkey, ps[i])
                 /\ IsPrefix(decryptbuf, PlainOf(dkey, ps, n))
    /\ (pc = "DecDone" /\ mode = "alter" /\ InPayload(alt))
          => /\ decRet.err # "nil"
             /\ Len(decryptbuf) <= (PairOf(alt) - 1) * readChunkSize
             /\ IsPrefix(decryptbuf, plain)

\* An altered payload byte of the second pair was caught by gcm.Open after
\* the first pair's plaintext was written.
C2_Witness ==
    /\ pc = "DecDone" /\ mode = "alter" /\ InPayload(alt) /\ PairOf(alt) = 2
    /\ decRet.err = "auth"
    /\ Len(decryptbuf) = readChunkSize

\* C3: with maxlen > 0, DecryptN returns without error only when it has taken
\* exactly maxlen bytes from the reader; a budget below one header, beyond the
\* input, or cutting a payload ends in an error.
C3_ExactBudget ==
    (pc = "DecDone" /\ maxlen > 0)
        => /\ decRet.err = "nil" => (rpos = maxlen /\ rbytes = maxlen)
           /\ (rpos # maxlen \/ rbytes # maxlen) => decRet.err # "nil"
           /\ (maxlen < HeaderLen \/ maxlen > Len(input)) => decRet.err # "nil"

\* A budget that cuts the first payload was refused as a budget mismatch.
C3_Witness ==
    /\ pc = "DecDone" /\ mode = "whole" /\ Len(plain) > 0
    /\ maxlen > HeaderLen /\ maxlen < HeaderLen + TagSize
    /\ decRet.err = "budget" /\ rpos = HeaderLen

\* C4: on a valid container a positive budget is accepted only when it is the
\* total length of a whole number of leading (header, payload) pairs.
C4_NoSuccessMidChunk ==
    (pc = "DecDone" /\ mode = "whole" /\ dkey = key /\ maxlen > 0 /\ decRet.err = "nil")
        => \E n \in 1 .. Len(Pairs(input, 0)) : Pairs(input, 0)[n].end = maxlen

\* C5: with maxlen > 0 DecryptN never takes more than maxlen bytes from the
\* reader; on a container followed by trailing bytes, with maxlen the
\* container's length, it returns without error, writes exactly the plaintext
\* and leaves the trailing bytes unread.
C5_PaddingTolerance ==
    /\ (DecRunning /\ maxlen > 0) => rpos <= maxlen
    /\ (pc = "DecDone" /\ mode = "pad" /\ maxlen > 0 /\ ~IOFailed(decRet))
          => /\ decRet.err = "nil"
             /\ decryptbuf = plain
             /\ rpos = Len(cryptbuf)
             /\ rpos < Len(input)

\* A padded container was decrypted with the container's length as budget.
C5_Witness ==
    /\ pc = "DecDone" /\ mode = "pad" /\ maxlen = Len(cryptbuf) /\ maxlen > 0
    /\ Len(input) > maxlen /\ decRet.err = "nil" /\ decryptbuf = plain
    /\ Len(plain) > readChunkSize

\* C6 as stated: every key length other than 16 and 32 is refused by Encrypt
\* and by DecryptN.
C6_OnlyTwoKeySizes ==
    /\ (pc = "EncDone" /\ Len(key) \notin {16, 32}) => encRet.err = "KeySizeError"
    /\ (pc = "DecDone" /\ Len(dkey) \notin {16, 32}) => decRet.err = "KeySizeError"

\* C6, amended: Encrypt and DecryptN refuse every key whose length is not 16,
\* 24 or 32 bytes, before they read or write a byte, and accept keys of 16,
\* 24 and 32 bytes.
C6_KeySizeValidation ==
    /\ (pc # "Encrypt" /\ Len(key) \notin {16, 24, 32})
          => /\ pc = "EncDone"
             /\ encRet = [n |-> 0, err |-> "KeySizeError"]
             /\ epos = 0 /\ cryptbuf = <<>>
    /\ (pc # "Encrypt" /\ Len(key) \in {16, 24, 32}) => encRet.err # "KeySizeError"
    /\ (DecRunning /\ Len(dkey) \notin {16, 24, 32})
          => /\ pc = "DecDone"
             /\ decRet = [n |-> 0, err |-> "KeySizeError"]
             /\ rpos = 0 /\ decryptbuf = <<>>
    /\ (DecRunning /\ Len(dkey) \in {16, 24, 32}) => decRet.err # "KeySizeError"

\* Encrypt accepted a 24-byte key and DecryptN refused a 17-byte key on the
\* container it wrote.
C6_Witness ==
    /\ pc = "DecDone" /\ Len(key) = 24 /\ encRet.err = "nil" /\ Len(cryptbuf) > 0
    /\ Len(dkey) = 17 /\ decRet.err = "KeySizeError" /\ rpos = 0

\* C7: a call that fails after whole chunks were written returns, with the
\* error, the number of bytes it had written to the writer.
C7_ErrorCarriesCount ==
    /\ (pc = "EncDone" /\ encRet.err # "nil" /\ tbytes > 0 /\ Len(cryptbuf) = tbytes)
          => encRet.n = tbytes
    /\ (pc = "DecDone" /\ decRet.err # "nil" /\ wbytes > 0 /\ Len(decryptbuf) = wbytes)
          => decRet.n = wbytes

\* C8: the nonce in each header is the nonce its chunk was sealed with, and
\* no two chunks of one Encrypt call were sealed with the same nonce.
C8_NonceUnique ==
    pc \in {"EncLoop", "EncDone"} =>
        /\ Len(cryptbuf) > (Len(sealed) - 1) * FullPairLen
        /\ Len(cryptbuf) <= Len(sealed) * FullPairLen
        /\ \A i \in 1 .. Len(sealed) :
              LET u == unpackNonceAndSize(HeaderOfPair(cryptbuf, i), NonceSize)
              IN  u.err = "nil" /\ u.nonce = sealed[i]
        /\ \A i, j \in 1 .. Len(sealed) : i # j => sealed[i] # sealed[j]

\* The nonce incremented as a little-endian integer over all of its bytes.
FullWidthInc(n) == PutUint((Uint(n) + 1) % Pow(ByteBase, Len(n)), Len(n))

\* C9: after each sealed chunk the nonce is the previous nonce plus one, as a
\* little-endian unsigned integer over all of its bytes.
C9_FullWidthCounter ==
    (pc \in {"EncLoop", "EncDone"} /\ sealed # <<>>)
        => nonce = FullWidthInc(sealed[Len(sealed)])

\* C10: a successful Encrypt of L bytes wrote ceil(L/S) (header, payload)
\* pairs and nothing else, each header giving its chunk's plaintext length
\* plus the tag length, and returned L + ceil(L/S) * (header + tag) bytes,
\* the length of what it wrote; nothing and 0 for L = 0; 57 for 17 bytes at
\* the source's chunk size.
C10_ContainerShape ==
    /\ (pc = "EncDone" /\ encRet.err = "nil") =>
          LET ps == Pairs(cryptbuf, 0)
              L  == Len(plain)
              c  == CeilDiv(L, readChunkSize)
          IN  /\ Len(ps) = c
              /\ c = 0 => cryptbuf = <<>> /\ encRet.n = 0
              /\ c > 0 => ps[c].end = Len(cryptbuf)
              /\ \A i \in 1 .. c :
                    ps[i].size = Min(readChunkSize, L - (i - 1) * readChunkSize) + TagSize
              /\ encRet.n = L + c * (HeaderLen + TagSize)
              /\ encRet.n = Len(cryptbuf)
    /\ 17 + CeilDiv(17, 64 * Pow(2, 20)) * (HeaderLen + TagSize) = 57

\* Encrypt returned after writing several pairs, the last one short.
C10_Witness ==
    /\ pc = "EncDone" /\ encRet.err = "nil"
    /\ Len(plain) > readChunkSize /\ Len(plain) % readChunkSize # 0
    /\ encRet.n = Len(cryptbuf)

\* --------------------------------------------- one long Encrypt call
\* A plaintext of one chunk more than the 8-byte counter has values.
LongPlain == [i \in 1 .. (Uint64Mod * readChunkSize + 1) |-> i % ByteBase]

InitNonce == InitCommon /\ key = MakeKey(16, 0) /\ plain = LongPlain

NextNonce == EncryptStart \/ EncryptChunk \/ EncryptEOF

SpecNonce == InitNonce /\ [][NextNonce]_vars

\* ------------------------------------------- DecryptN on arbitrary streams
\* Chunks in the longest stream of chunks handed to DecryptN.
MaxChunks == 3

StreamKey == MakeKey(16, 0)

\* Lines 70-84 of Encrypt: the header and sealed payload written for one
\* chunk of plaintext p under key k and nonce n.
ChunkOf(k, n, p) ==
    LET sealedPayload == Seal(k, n, p)
    IN  packNonceAndSize(n, Len(sealedPayload)) \o sealedPayload

\* Chunks of Encrypt calls: a first nonce or its successor, and a plaintext
\* of one byte or of a full chunk.
ChunkSpecs ==
    {[nonce |-> n, plain |-> [i \in 1 .. len |-> (off + i) % ByteBase]] :
        n \in {[i \in 1 .. NonceSize |-> 0], incNonce([i \in 1 .. NonceSize |-> 0])},
        len \in {1, readChunkSize}, off \in {0}}

RECURSIVE ConcatChunks(_, _, _)
ConcatChunks(k, cs, n) ==
    IF n = 0 THEN <<>>
    ELSE ConcatChunks(k, cs, n - 1) \o ChunkOf(k, cs[n].nonce, cs[n].plain)

RECURSIVE ConcatPlains(_, _)
ConcatPlains(cs, n) ==
    IF n = 0 THEN <<>> ELSE ConcatPlains(cs, n - 1) \o cs[n].plain

\* iocrypt_test.go lines 105-111: input that is no container, byte i being
\* 0x41 + i % 26 (here modulo the number of byte values).
Garbage(len) == [i \in 1 .. len |-> i % ByteBase]

GarbageLens == {1, HeaderLen - 1, HeaderLen, HeaderLen + 1, 2 * HeaderLen}

\* A header whose checksum is right, with an arbitrary 8-byte length field.
ForgedHeader(n, L) ==
    LET body == n \o PutUint(L, sizeLen)
    IN  body \o PutUint(ChecksumIEEE(body), crc32Size)

\* Length fields of forged headers: small ones, the largest int, and the
\* values whose top bit is set.
ForgedLens == {0, 1, TagSize, TagSize + 1, (Uint64Mod \div 2) - 1,
               Uint64Mod \div 2, Uint64Mod - 1}

\* Bytes that follow a forged header.
ForgedTails == {0, 1, TagSize + 1}

StreamBudgets(len) == {0, 1, HeaderLen, len}

InitStream ==
    /\ pc = "DecryptN"
    /\ key = StreamKey
    /\ epos = 0
    /\ nonce = <<>>
    /\ tbytes = 0
    /\ cryptbuf = <<>>
    /\ encRet = NoRet
    /\ alt = 0
    /\ \/ /\ mode = "chunks"
          /\ \E n \in 0 .. MaxChunks : \E cs \in [1 .. n -> ChunkSpecs] :
                /\ input = ConcatChunks(key, cs, n)
                /\ plain = ConcatPlains(cs, n)
                /\ sealed = [i \in 1 .. n |-> cs[i].nonce]
       \/ /\ mode = "garbage"
          /\ \E len \in GarbageLens : input = Garbage(len)
          /\ plain = <<>>
          /\ sealed = <<>>
       \/ /\ mode = "forged"
          /\ \E L \in ForgedLens : \E t \in ForgedTails :
                input = ForgedHeader([i \in 1 .. NonceSize |-> 0], L)
                           \o [i \in 1 .. t |-> 0]
          /\ plain = <<>>
          /\ sealed = <<>>
    /\ dkey \in {StreamKey, MakeKey(32, 0), MakeKey(15, 0)}
    /\ maxlen \in StreamBudgets(Len(input))
    /\ opc = "none"
    /\ nread = 0
    /\ rpos = 0
    /\ rbytes = 0
    /\ wbytes = 0
    /\ header = <<>>
    /\ dnonce = <<>>
    /\ payloadLen = 0
    /\ payload = <<>>
    /\ decryptbuf = <<>>
    /\ decRet = NoRet

SpecStream == InitStream /\ [][DecNext]_vars

\* The checksum stored in header b is the checksum of its nonce and length.
HeaderSumOK(b) ==
    Uint(Slice(b, NonceSize + sizeLen + 1, Len(b)))
        = ChecksumIEEE(Slice(b, 1, NonceSize + sizeLen))

\* C11: DecryptN goes on with a fully read header only when the header's last
\* 4 bytes are the CRC32 of its nonce and length bytes, and then with the
\* nonce and length the header stores; a header that fails the test ends the
\* call in an error with no payload byte read and nothing written for that
\* chunk; input that is no container fails at its first header.
C11_HeaderGate ==
    /\ pc \in {"DecPayload", "DecOpen", "DecWrite"}
          => /\ HeaderSumOK(header)
             /\ dnonce = Slice(header, 1, NonceSize)
             /\ header = packNonceAndSize(dnonce, payloadLen)
    /\ (pc = "DecDone" /\ decRet.err = "crc")
          => /\ ~HeaderSumOK(header)
             /\ rpos = rbytes
             /\ Len(decryptbuf) = wbytes
    /\ (pc = "DecDone" /\ rpos >= HeaderLen /\ ~IOFailed(decRet)
           /\ ~HeaderSumOK(Slice(input, 1, HeaderLen)))
          => /\ decRet.err = "crc"
             /\ rpos = HeaderLen
             /\ decryptbuf = <<>>
    /\ (pc = "DecDone" /\ mode = "garbage" /\ rpos >= HeaderLen /\ ~IOFailed(decRet))
          => decRet.err = "crc"

\* Input that is no container was refused at its first header.
C11_Witness ==
    /\ pc = "DecDone" /\ mode = "garbage" /\ Len(input) > HeaderLen
    /\ decRet.err = "crc" /\ rpos = HeaderLen /\ decryptbuf = <<>>

\* ------------------------------------------------ DecryptN as a function
\* Lines 122-175 with a reader and a writer that do not fail: the result,
\* the bytes written and the bytes taken from the reader, from reader
\* position pos on, with rbytes = rb and the bytes out written so far.
RECURSIVE DecryptLoop(_, _, _, _, _, _)
DecryptLoop(k, max, buf, pos, rb, out) ==
    LET finish == [ret |-> IF max > 0 /\ rb # max THEN ErrReturn("budget")
                           ELSE OkReturn(Len(out)),
                   out |-> out, pos |-> pos]
        nh == Min(HeaderLen, Len(buf) - pos)
        u  == unpackNonceAndSize(Slice(buf, pos + 1, pos + HeaderLen), NonceSize)
        np == Min(u.size, Len(buf) - pos - HeaderLen)
        o  == Open(k, u.nonce, Slice(buf, pos + HeaderLen + 1, pos + HeaderLen + np))
    IN  IF max > 0 /\ rb + HeaderLen > max THEN finish
        ELSE IF nh = 0 THEN finish
        ELSE IF nh < HeaderLen
             THEN [ret |-> ErrReturn("ErrUnexpectedEOF"), out |-> out, pos |-> pos + nh]
        ELSE IF u.err # "nil"
             THEN [ret |-> ErrReturn(u.err), out |-> out, pos |-> pos + nh]
        ELSE IF max > 0 /\ IntAdd(rb + nh, u.size) > max
             THEN [ret |-> IF rb + nh # max THEN ErrReturn("budget")
                           ELSE OkReturn(Len(out)),
                   out |-> out, pos |-> pos + nh]
        ELSE IF u.size < 0 \/ u.size > MaxAlloc
             THEN [ret |-> [n |-> 0, err |-> "panic"], out |-> out, pos |-> pos + nh]
        ELSE IF np < u.size
             THEN [ret |-> ErrReturn(IF np = 0 THEN "EOF" ELSE "ErrUnexpectedEOF"),
                   out |-> out, pos |-> pos + nh + np]
        ELSE IF o.err # "nil"
             THEN [ret |-> ErrReturn(o.err), out |-> out, pos |-> pos + nh + np]
        ELSE DecryptLoop(k, max, buf, pos + nh + np, rb + nh + np, out \o o.plaintext)

\* DecryptN(r, w, key, maxlen) on a reader holding buf and an empty writer.
DecryptNRun(buf, k, max) ==
    IF ~NewCipherOK(k)
    THEN [ret |-> ErrReturn("KeySizeError"), out |-> <<>>, pos |-> 0]
    ELSE DecryptLoop(k, max, buf, 0, 0, <<>>)

\* Lines 97-99: Decrypt(r, w, key) is DecryptN(r, w, key, 0).
Decrypt(buf, k) == DecryptNRun(buf, k, 0)

\* C12: DecryptN with maxlen = 0 returns what Decrypt returns, writes the
\* same bytes and takes the same bytes from the reader; neither budget test
\* stops its loop, the loop ends only on end-of-input where a header would
\* start, and no budget mismatch is reported.
C12_UnboundedMode ==
    /\ (DecRunning /\ maxlen = 0)
          => /\ ~HeaderOverBudget
             /\ ~PayloadOverBudget(payloadLen)
             /\ ~BudgetMismatch
             /\ decRet.err # "budget"
    /\ (pc = "DecCheck" /\ maxlen = 0) => (rpos = Len(input) /\ rbytes = rpos)
    /\ (pc = "DecDone" /\ maxlen = 0 /\ ~IOFailed(decRet))
          => LET d == Decrypt(input, dkey)
             IN  /\ decRet = d.ret
                 /\ decryptbuf = d.out
                 /\ rpos = d.pos
    /\ (pc = "DecDone" /\ maxlen = 0 /\ decRet.err = "nil")
          => (rpos = Len(input) /\ rbytes = rpos)

\* DecryptN with maxlen = 0 went through several chunks to the end of input.
C12_Witness ==
    /\ pc = "DecDone" /\ maxlen = 0 /\ mode = "chunks" /\ Len(sealed) >= 2
    /\ decRet.err = "nil" /\ rpos = Len(input) /\ decryptbuf = plain

\* ------------------------------------------------- Encrypt as a function
\* Lines 58-91 with a reader and a writer that do not fail: the bytes
\* written for the plaintext p from position pos on, the nonce being n.
RECURSIVE EncryptLoop(_, _, _, _, _)
EncryptLoop(k, n, p, pos, out) ==
    LET nbytes == Min(readChunkSize, Len(p) - pos)
    IN  IF nbytes = 0 THEN out
        ELSE EncryptLoop(k, incNonce(n), p, pos + nbytes,
                         out \o ChunkOf(k, n, Slice(p, pos + 1, pos + nbytes)))

\* Encrypt(r, w, key) on a reader holding p and an empty writer, when
\* randomBytes returns n0.
EncryptRun(p, k, n0) ==
    IF ~NewCipherOK(k)
    THEN [ret |-> ErrReturn("KeySizeError"), out |-> <<>>]
    ELSE LET out == EncryptLoop(k, n0, p, 0, <<>>)
         IN  [ret |-> OkReturn(Len(out)), out |-> out]

\* ------------------------------------------------- two interleaved calls
\* An Encrypt call and a DecryptN call, each with its own reader, writer
\* and key, run by two goroutines: the scheduler may switch between them
\* after any step.
EncPositions == {"Encrypt", "EncLoop", "EncDone"}

Switch ==
    /\ opc # "none"
    /\ pc' = opc
    /\ opc' = pc
    /\ UNCHANGED <<encVars, decVars, mode, alt, input, dkey, maxlen, nread>>

\* Containers and other bytes behind DecryptN's reader.
ParStreams ==
    {ConcatChunks(StreamKey, cs, 2) : cs \in [1 .. 2 -> ChunkSpecs]}
        \cup {<<>>, Garbage(HeaderLen + 1)}

InitPar ==
    /\ pc = "Encrypt"
    /\ opc = "DecryptN"
    /\ key \in {MakeKey(16, 1), MakeKey(15, 0)}
    /\ plain \in {[i \in 1 .. len |-> i % ByteBase] : len \in {0, 1, readChunkSize + 1}}
    /\ epos = 0
    /\ nonce = <<>>
    /\ tbytes = 0
    /\ cryptbuf = <<>>
    /\ sealed = <<>>
    /\ encRet = NoRet
    /\ mode = "par"
    /\ alt = 0
    /\ input \in ParStreams
    /\ dkey \in {StreamKey, MakeKey(16, 1)}
    /\ maxlen \in {0, Len(input)}
    /\ nread = 0
    /\ rpos = 0
    /\ rbytes = 0
    /\ wbytes = 0
    /\ header = <<>>
    /\ dnonce = <<>>
    /\ payloadLen = 0
    /\ payload = <<>>
    /\ decryptbuf = <<>>
    /\ decRet = NoRet

NextPar ==
    \/ Switch
    \/ EncryptStart
    \/ EncryptChunk
    \/ EncryptEOF
    \/ DecryptStart
    \/ DecryptReadHeader
    \/ DecryptUnpack
    \/ DecryptReadPayload
    \/ DecryptOpen
    \/ DecryptWrite
    \/ DecryptFinish

SpecPar == InitPar /\ [][NextPar]_vars

\* Position of the Encrypt call and of the DecryptN call.
EncPc == IF pc \in EncPositions THEN pc ELSE opc
DecPc == IF pc \in EncPositions THEN opc ELSE pc

\* C13: interleaved in any order with another call, an Encrypt call returns
\* what it returns alone from the same first nonce and leaves the same bytes
\* in its writer, and so does a DecryptN call; a step of one call leaves the
\* nonce, buffers and counters of the other call as they are.
C13_IndependentCalls ==
    /\ [](/\ (EncPc = "EncDone" /\ encRet.err # "rand")
                => LET e == EncryptRun(plain, key,
                                       IF sealed = <<>> THEN nonce ELSE sealed[1])
                   IN  encRet = e.ret /\ cryptbuf = e.out
           /\ DecPc = "DecDone"
                => LET d == DecryptNRun(input, dkey, maxlen)
                   IN  decRet = d.ret /\ decryptbuf = d.out /\ rpos = d.pos)
    /\ [][/\ (pc \in EncPositions /\ pc' \in EncPositions) => UNCHANGED decVars
          /\ (pc \notin EncPositions /\ pc' \notin EncPositions) => UNCHANGED encVars]_vars

\* Both calls are midway, each with a chunk behind it: Encrypt has sealed
\* its first chunk and DecryptN has written its first plaintext.
C13_Witness ==
    /\ EncPc = "EncLoop" /\ Len(sealed) = 1 /\ tbytes > 0
    /\ DecPc = "DecLoop" /\ wbytes > 0 /\ rpos < Len(input)
    /\ decRet = NoRet /\ encRet = NoRet

\* C14: Decrypt on a proper prefix of a valid container returns an error
\* when the prefix ends inside a header (1 to 23 bytes of it) or inside a
\* payload (fewer bytes than the header declares); it returns without error,
\* with the plaintext of the whole pairs, when the prefix ends where a header
\* would start; the loop ends on end-of-input only there.
C14_Truncation ==
    /\ (pc = "DecDone" /\ mode = "cut" /\ maxlen = 0 /\ ~IOFailed(decRet))
          => LET n   == Len(input)
                 off == n % FullPairLen
                 whole == n \div FullPairLen
             IN  /\ n < Len(cryptbuf)
                 /\ off = 0 => /\ decRet = OkReturn(whole * readChunkSize)
                               /\ decryptbuf = Slice(plain, 1, whole * readChunkSize)
                 /\ (off > 0 /\ off < HeaderLen) => decRet = ErrReturn("ErrUnexpectedEOF")
                 /\ off = HeaderLen => decRet = ErrReturn("EOF")
                 /\ off > HeaderLen => decRet = ErrReturn("ErrUnexpectedEOF")
                 /\ off > 0 => /\ rpos = n
                               /\ decryptbuf = Slice(plain, 1, whole * readChunkSize)
    /\ (pc = "DecCheck" /\ mode = "cut")
          => (rpos = Len(input) /\ rbytes = rpos /\ rpos % FullPairLen = 0)

\* A container cut inside its second header: the first chunk was written,
\* then the call failed.
C14_Witness ==
    /\ pc = "DecDone" /\ mode = "cut" /\ maxlen = 0
    /\ Len(input) > FullPairLen /\ Len(input) < FullPairLen + HeaderLen
    /\ decRet.err = "ErrUnexpectedEOF" /\ Len(decryptbuf) = readChunkSize

DecPositions == {"DecryptN", "DecLoop", "DecUnpack", "DecPayload", "DecOpen",
                 "DecWrite", "DecCheck", "DecDone"}

\* The positions a step of DecryptN may lead to from position p.
StepsFrom(p) ==
    CASE p = "DecryptN"   -> {"DecLoop", "DecDone"}
      [] p = "DecLoop"    -> {"DecUnpack", "DecCheck", "DecDone"}
      [] p = "DecUnpack"  -> {"DecPayload", "DecCheck", "DecDone"}
      [] p = "DecPayload" -> {"DecOpen", "DecDone"}
      [] p = "DecOpen"    -> {"DecWrite", "DecDone"}
      [] p = "DecWrite"   -> {"DecLoop", "DecDone"}
      [] p = "DecCheck"   -> {"DecDone"}
      [] OTHER            -> {}

\* C15: in every iteration DecryptN reads a header, checks its checksum,
\* tests the budget, reads the payload, opens it and writes the plaintext,
\* in this order, before it reads the next header or finishes: bytes are
\* taken from the reader only by the header read and the payload read, the
\* writer gets bytes only in the write step, and what it gets is the opened
\* payload that follows the checked header just read.  A step that fails
\* ends the call: no read and no write follows it.
C15_LoopOrder ==
    /\ [][/\ pc \in DecPositions => pc' \in StepsFrom(pc)
          /\ rpos' # rpos => pc \in {"DecLoop", "DecPayload"}
          /\ (pc = "DecLoop" /\ pc' = "DecUnpack")
                => (rpos' = rpos + HeaderLen /\ header' = Slice(input, rpos + 1, rpos'))
          /\ (pc = "DecPayload" /\ pc' = "DecOpen")
                => (rpos' = rpos + payloadLen /\ payload' = Slice(input, rpos + 1, rpos'))
          /\ decryptbuf' # decryptbuf => pc = "DecWrite"
          /\ (pc = "DecWrite" /\ pc' = "DecLoop") => decryptbuf' = decryptbuf \o payload
          /\ decRet'.err \notin {"none", "nil"} => pc' = "DecDone"]_vars
    /\ [](/\ pc \in {"DecPayload", "DecOpen", "DecWrite"}
               => (HeaderSumOK(header) /\ dnonce = Slice(header, 1, NonceSize))
          /\ pc = "DecWrite"
               => (/\ header = Slice(input, rpos - payloadLen - HeaderLen + 1,
                                      rpos - payloadLen)
                   /\ payload = Open(dkey, dnonce,
                                      Slice(input, rpos - payloadLen + 1, rpos)).plaintext)
          /\ decRet.err # "none" => (pc = "DecDone" /\ ~ENABLED DecNext))

\* The second chunk of a stream failed gcm.Open after the first chunk went
\* through all steps: the call ended with one plaintext written.
C15_Witness ==
    /\ pc = "DecDone" /\ mode = "alter" /\ PairOf(alt) = 2 /\ InPayload(alt)
    /\ decRet.err = "auth" /\ Len(decryptbuf) = readChunkSize
    /\ rpos > FullPairLen + HeaderLen

\* The 8-byte length field of header b, as the unsigned number it stores.
StoredLen(b) == Uint(Slice(b, NonceSize + 1, NonceSize + sizeLen))

\* C16: for a header that passes the checksum, with the unsigned value L in
\* its length field, DecryptN takes L as the payload length, never another
\* number; it reads exactly L payload bytes or returns an error value; and
\* it goes on to read the payload under a budget only when the bytes
\* consumed plus L do not exceed maxlen.
C16_UnsignedLength ==
    /\ pc \in {"DecPayload", "DecOpen", "DecWrite"} => payloadLen = StoredLen(header)
    /\ pc = "DecOpen" => Len(payload) = StoredLen(header)
    /\ (pc = "DecPayload" /\ maxlen > 0) => rbytes + StoredLen(header) <= maxlen
    /\ pc = "DecDone" => decRet.err # "panic"

\* DecryptN has returned from a call on an empty input with a valid key, its
\* reader and writer not failing.
EmptyInputDone ==
    pc = "DecDone" /\ input = <<>> /\ NewCipherOK(dkey) /\ ~IOFailed(decRet)

\* C17 as stated: on an input of zero bytes DecryptN returns without error,
\* reports zero bytes and writes nothing, for maxlen = 0 and for every
\* positive maxlen.
C17_EmptyInputAnyBudget ==
    EmptyInputDone => (decRet = OkReturn(0) /\ decryptbuf = <<>>)

\* C17, amended: on an input of zero bytes DecryptN writes nothing; with
\* maxlen = 0 it returns without error and reports zero bytes; with a
\* positive maxlen it returns the budget mismatch error, zero bytes not
\* being maxlen bytes.
C17_EmptyInput ==
    EmptyInputDone
        => /\ decryptbuf = <<>>
           /\ rpos = 0
           /\ maxlen = 0 => decRet = OkReturn(0)
           /\ maxlen > 0 => decRet = ErrReturn("budget")

\* Decrypt returned from an empty input.
C17_Witness ==
    /\ EmptyInputDone /\ maxlen = 0
    /\ decRet = OkReturn(0) /\ decryptbuf = <<>> /\ rpos = 0

\* ------------------------------------ Encrypt on a reader that splits reads
\* EncryptRead with a fault: r.Read in place of io.ReadFull, so the chunk is
\* whatever one Read call returns.
EncryptReadOnce ==
    /\ pc = "EncLoop"
    /\ LET remaining == Len(plain) - epos
           room == readChunkSize - nread
       IN  IF remaining = 0
           THEN UNCHANGED <<epos, nread>>
           ELSE \E k \in 1 .. Min(room, remaining) :
                   /\ nread' = nread + k
                   /\ epos' = epos + k
    /\ pc' = "EncSeal"
    /\ UNCHANGED <<key, plain, nonce, tbytes, cryptbuf, sealed, encRet,
                   mode, alt, input, dkey, maxlen, opc, decVars>>

\* Line 62, one r.Read call of the loop inside io.ReadFull(r, payload): the
\* reader hands out any number of the bytes it has, up to the room left in
\* the buffer, and reports end of input with its last bytes or on the call
\* after them.  io.ReadFull returns when the buffer is full or the reader
\* has reported end of input.
EncryptRead ==
    /\ pc = "EncLoop"
    /\ LET remaining == Len(plain) - epos
           room == readChunkSize - nread
       IN  IF remaining = 0
           THEN /\ pc' = "EncSeal"
                /\ UNCHANGED <<epos, nread>>
           ELSE \E k \in 1 .. Min(room, remaining) : \E eof \in {k = remaining, FALSE} :
                   /\ nread' = nread + k
                   /\ epos' = epos + k
                   /\ pc' = IF nread' = readChunkSize \/ eof THEN "EncSeal" ELSE "EncLoop"
    /\ UNCHANGED <<key, plain, nonce, tbytes, cryptbuf, sealed, encRet,
                   mode, alt, input, dkey, maxlen, opc, decVars>>

\* Lines 63-91, after io.ReadFull returned nread bytes: none (io.EOF) ends
\* the loop; a full or a short buffer (io.ErrUnexpectedEOF) is sealed and
\* written with its header, and the nonce advances.
EncryptSeal ==
    /\ pc = "EncSeal"
    /\ IF nread = 0
       THEN /\ encRet' = OkReturn(tbytes)
            /\ pc' = "EncDone"
            /\ UNCHANGED <<nonce, tbytes, cryptbuf, sealed, nread>>
       ELSE LET sealedPayload == Seal(key, nonce, Slice(plain, epos - nread + 1, epos))
                hdr == packNonceAndSize(nonce, Len(sealedPayload))
            IN  /\ sealed' = Append(sealed, nonce)
                /\ cryptbuf' = cryptbuf \o hdr \o sealedPayload
                /\ tbytes' = tbytes + Len(hdr) + Len(sealedPayload)
                /\ nonce' = incNonce(nonce)
                /\ nread' = 0
                /\ pc' = "EncLoop"
                /\ UNCHANGED encRet
    /\ UNCHANGED <<key, plain, epos, mode, alt, input, dkey, maxlen, opc, decVars>>

NextSplit == EncryptStart \/ EncryptRead \/ EncryptSeal

SpecSplit == Init /\ [][NextSplit]_vars

\* C18: however the reader splits the plaintext over its Read calls, every
\* chunk Encrypt has written carries between 1 and readChunkSize plaintext
\* bytes, every chunk but the last exactly readChunkSize, and a shorter one
\* only when the input has ended; a short last read is sealed and is no
\* error; end of input with no byte read ends the loop without a chunk; the
\* container is the one Encrypt writes from unsplit reads.
C18_ChunkSizes ==
    pc \in {"EncLoop", "EncSeal", "EncDone"}
        => LET ps == Pairs(cryptbuf, 0)
               c  == Len(ps)
               pl(i) == ps[i].size - TagSize
           IN  /\ c = Len(sealed)
               /\ c > 0 => ps[c].end = Len(cryptbuf)
               /\ \A i \in 1 .. c : pl(i) >= 1 /\ pl(i) <= readChunkSize
               /\ \A i \in 1 .. (c - 1) : pl(i) = readChunkSize
               /\ (c > 0 /\ pl(c) < readChunkSize) => epos = Len(plain)
               /\ (pc = "EncDone" /\ NewCipherOK(key) /\ encRet.err # "rand")
                     => /\ encRet = OkReturn(Len(cryptbuf))
                        /\ epos = Len(plain)
                        /\ c = CeilDiv(Len(plain), readChunkSize)
                        /\ c > 0 => cryptbuf = EncryptRun(plain, key, sealed[1]).out

\* A chunk has been written and the buffer for the next one is partly
\* filled by a Read call that returned fewer bytes than asked for.
C18_Witness ==
    /\ pc = "EncLoop" /\ Len(sealed) >= 1
    /\ nread > 0 /\ nread < readChunkSize /\ epos < Len(plain)

\* ------------------------------------------------------------ termination
\* One call, an Encrypt on a reader that may split its reads or a DecryptN
\* on any of the streams, run by a goroutine that keeps taking its next
\* step as long as it has one.
InitLive == Init \/ InitStream

NextLive == EncryptStart \/ EncryptRead \/ EncryptSeal \/ DecNext

SpecLive == InitLive /\ [][NextLive]_vars /\ WF_vars(NextLive)

C20_ChunkIndependence ==
    (pc = "DecDone" /\ mode = "chunks" /\ dkey = key /\ maxlen = 0 /\ ~IOFailed(decRet))
        => /\ decRet = OkReturn(Len(plain))
           /\ decryptbuf = plain
           /\ rpos = Len(input)

\* Decrypt accepted three chunks whose nonces go backwards and then repeat.
C20_Witness ==
    /\ pc = "DecDone" /\ mode = "chunks" /\ dkey = key /\ maxlen = 0
    /\ Len(sealed) = 3 /\ sealed[1] = incNonce(sealed[2]) /\ sealed[3] = sealed[2]
    /\ decRet.err = "nil" /\ decryptbuf = plain /\ Len(plain) >= 3

====
